---- MODULE Spec2Model ----
(***************************************************************************)
(* A model of the generation subsystem of tnf: the command dispatcher, the *)
(* page, tailwindcss and entry generators, the confirmation-gated writer,  *)
(* the configuration updater and the import-path rewriter                  *)
(* (src/unnamed/part_000), and the later dispatcher of                     *)
(* src/src/generate/generate.ts.                                           *)
(*                                                                         *)
(* Paths are sequences of segments; a file's text is a sequence of atoms   *)
(* (characters, or runs of characters that hold no quote).                 *)
(***************************************************************************)
EXTENDS Naturals, Sequences, FiniteSets, TLC

\* ------------------------------------------------------------------ bounds
\* Longest import specifier (in segments) the rewriter is fed.
MaxSpecLen == 2
\* Most import statements in one content string.
MaxImports == 1

\* ------------------------------------------------------------ path (node)
\* A segment whose first character is '.', as String.startsWith('.') sees it.
DotSegments == {".", "..", ".tnf"}
PlainSegments == {"router"}
Segments == DotSegments \cup PlainSegments

RECURSIVE Normalize(_, _)
\* path.normalize of an absolute path: acc is the normalized prefix.
Normalize(acc, rest) ==
  IF rest = <<>> THEN acc
  ELSE LET s == Head(rest) IN
       IF s = "." THEN Normalize(acc, Tail(rest))
       ELSE IF s = ".."
            THEN Normalize(IF acc = <<>> THEN acc ELSE SubSeq(acc, 1, Len(acc) - 1),
                           Tail(rest))
            ELSE Normalize(Append(acc, s), Tail(rest))

\* path.dirname of an absolute path.
Dirname(p) == IF p = <<>> THEN <<>> ELSE SubSeq(p, 1, Len(p) - 1)

\* path.join(base, relative): concatenate and normalize.
Join(base, rel) == Normalize(<<>>, base \o rel)

\* path.resolve(dir, importPath), dir absolute and importPath not absolute.
PathResolve(dir, importPath) == Normalize(<<>>, dir \o importPath)

RECURSIVE CommonPrefix(_, _)
CommonPrefix(a, b) ==
  IF a = <<>> \/ b = <<>> \/ Head(a) # Head(b) THEN 0
  ELSE 1 + CommonPrefix(Tail(a), Tail(b))

RECURSIVE Ups(_)
Ups(n) == IF n = 0 THEN <<>> ELSE <<"..">> \o Ups(n - 1)

\* path.relative(from, to) of two absolute normalized paths; '' is <<>>.
PathRelative(from, to) ==
  LET k == CommonPrefix(from, to)
  IN Ups(Len(from) - k) \o SubSeq(to, k + 1, Len(to))

\* String.prototype.startsWith('.') of a path string.
StartsWithDot(p) == p # <<>> /\ Head(p) \in DotSegments

\* ------------------------------------------------- processImportPaths
\* An import statement `from <q><path><q>`; a content string is the
\* sequence of the import statements the regular expression finds in it.
Quotes == {"'", "\""}

\* A faulty variant, for comparison: the source file's own path is resolved against, not its
\* directory.
ResolveFromSourceFile(sourcePath, importPath) == PathResolve(sourcePath, importPath)

\* path.resolve(path.dirname(sourcePath), importPath)
ResolveFromSource(sourcePath, importPath) ==
  PathResolve(Dirname(sourcePath), importPath)

\* relativePath.startsWith('.') ? relativePath : `./${relativePath}`
NormalizedPath(relativePath) ==
  IF StartsWithDot(relativePath) THEN relativePath ELSE <<".">> \o relativePath

\* The replacer callback of processImportPaths, for one match.
RewriteImport(stmt, sourcePath, destPath) ==
  IF StartsWithDot(stmt.path)
  THEN [q |-> "'",
        path |-> NormalizedPath(PathRelative(Dirname(destPath),
                                             ResolveFromSource(sourcePath, stmt.path)))]
  ELSE stmt

processImportPaths(content, sourcePath, destPath) ==
  [i \in 1..Len(content) |-> RewriteImport(content[i], sourcePath, destPath)]

\* ------------------------------------------------------ configuration
\* A string is a sequence of characters; Undef is JavaScript's undefined.
Undef == <<"undefined">>
\* 'src/client.tsx', one atom: it holds no quote and no backslash.
ClientPath == <<"src/client.tsx">>
\* Values a string field of the user's configuration may hold: plain text,
\* and text holding a quote followed by a colon.
FieldValues == {<<"a">>, <<"a", "\"", ":", "b">>}
EntryClients == {<<"src/index.tsx">>, ClientPath}
NoEntry == [has |-> FALSE, client |-> Undef, server |-> Undef]
Entries ==
  {NoEntry} \cup
  [has : {TRUE}, client : EntryClients, server : FieldValues \cup {Undef}]
Flags == {"undefined", "false", "true"}
\* The Config objects loadConfig may return.
Configs == [title : FieldValues, entry : Entries, tailwindcss : Flags]

RECURSIVE Escape(_)
\* JSON.stringify escapes a quote and a backslash inside a string.
Escape(s) ==
  IF s = <<>> THEN <<>>
  ELSE (IF Head(s) \in {"\"", "\\"} THEN <<"\\", Head(s)>> ELSE <<Head(s)>>)
       \o Escape(Tail(s))

JsonString(s) == <<"\"">> \o Escape(s) \o <<"\"">>

\* One property of an object in JSON.stringify(config, null, 2).
JsonMember(indent, key, value) == <<indent, "\"", key, "\"", ":", " ">> \o value

RECURSIVE JoinMembers(_)
JoinMembers(ms) ==
  IF ms = <<>> THEN <<>>
  ELSE IF Len(ms) = 1 THEN Head(ms)
  ELSE Head(ms) \o <<",">> \o JoinMembers(Tail(ms))

\* An object: its defined properties, one per line; {} when it has none.
JsonObject(members, closeIndent) ==
  IF members = <<>> THEN <<"{", "}">>
  ELSE <<"{">> \o JoinMembers(members) \o <<closeIndent, "}">>

\* The properties of o.entry that are not undefined.
EntryMembers(e) ==
  (IF e.client = Undef THEN <<>>
   ELSE <<JsonMember("\n    ", "client", JsonString(e.client))>>)
  \o (IF e.server = Undef THEN <<>>
      ELSE <<JsonMember("\n    ", "server", JsonString(e.server))>>)

\* JSON.stringify(config, null, 2): undefined properties are left out.
Stringify(config) ==
  JsonObject(
    <<JsonMember("\n  ", "title", JsonString(config.title))>>
    \o (IF config.entry.has
        THEN <<JsonMember("\n  ", "entry",
                          JsonObject(EntryMembers(config.entry), "\n  "))>>
        ELSE <<>>)
    \o (IF config.tailwindcss = "undefined" THEN <<>>
        ELSE <<JsonMember("\n  ", "tailwindcss", <<config.tailwindcss>>)>>),
    "\n")

RECURSIVE NextQuote(_, _)
\* The first quote of text after position i, or 0.
NextQuote(text, i) ==
  IF i >= Len(text) THEN 0
  ELSE IF text[i + 1] = "\"" THEN i + 1 ELSE NextQuote(text, i + 1)

RECURSIVE ReplaceFrom(_, _)
\* text.replace(/"([^"]+)":/g, '$1:') from position i on: a match is a
\* quote, one or more characters that are no quote, a quote and a colon.
ReplaceFrom(text, i) ==
  IF i > Len(text) THEN <<>>
  ELSE LET k == NextQuote(text, i) IN
       IF /\ text[i] = "\""
          /\ k >= i + 2
          /\ k + 1 <= Len(text)
          /\ text[k + 1] = ":"
       THEN SubSeq(text, i + 1, k - 1) \o <<":">> \o ReplaceFrom(text, k + 2)
       ELSE <<text[i]>> \o ReplaceFrom(text, i + 1)

UnquoteKeys(text) == ReplaceFrom(text, 1)

\* configContent of updateConfigFile.
ConfigContent(config) == <<"export default ">> \o UnquoteKeys(Stringify(config))


\* ------------------------------------------------------------ file system
Cwd == <<"proj">>
SrcDir == Join(Cwd, <<"src">>)
\* path.join(opts.cwd, 'src/pages')
PagesDir == Join(Cwd, <<"src", "pages">>)
\* path.join(cwd, `src/.${FRAMEWORK_NAME}`)
TnfPath == Join(Cwd, <<"src", ".tnf">>)
\* path.join(tnfPath, 'client.tsx')
ClientSrcPath == Join(TnfPath, <<"client.tsx">>)
\* path.join(cwd, 'src/client.tsx')
ClientDestPath == Join(Cwd, <<"src", "client.tsx">>)

\* The names a page request may carry: none, a plain one, a nested one.
Names == {"", "about", "admin/users"}
PageNames == Names \ {""}
\* The segments of a name, split at its path separators.
NameSegments(name) ==
  IF name = "admin/users" THEN <<"admin", "users">>
  ELSE IF name = "" THEN <<>> ELSE <<name>>

\* path.join(pagesDir, `${pageName}.tsx`): the extension is the last atom.
PagePath(name) == Join(PagesDir, NameSegments(name)) \o <<".tsx">>
\* path.join(pagesDir, `${pageName}.module.less`)
StyleModulePath(name) == Join(PagesDir, NameSegments(name)) \o <<".module.less">>
PagePaths == {PagePath(n) : n \in PageNames} \cup {StyleModulePath(n) : n \in PageNames}
\* The directory a page file lies in.
PageFileDir(p) == Dirname(Dirname(p))

\* A file's content; Absent stands for no file at the path.
Absent == <<"<absent>">>
Old == <<"old">>
\* What a write that failed midway may leave behind.
Partial == <<"partial">>
Colors == {"#aaaaaa", "#bbbbbb"}
\* pageContent and styleContent of generatePage.
PageContent(name) == <<"page", name>>
StyleContent(color) == <<"style", color>>
\* tailwindConfig and tailwindCSS of generateTailwindcss.
TailwindConfig == <<"tailwindConfig">>
TailwindCSS == <<"tailwindCSS">>
TailwindFiles == {"tailwind.config.js", "src/tailwind.css"}
TailwindContent(id) == IF id = "tailwind.config.js" THEN TailwindConfig ELSE TailwindCSS

\* The configuration file as the user wrote it, and a truncated one.
OriginalText == <<"original">>
PartialText == <<"export default ">>

\* Contents of the client.tsx template and of src/client.tsx: the import
\* statements in them.
Import(q, path) == [q |-> q, path |-> path]
TemplateContents ==
  { <<Import("'", <<".", "router">>), Import("'", <<"react">>)>>,
    <<Import("\"", <<"..", "global.less">>)>> }
NoFile == [exists |-> FALSE, content |-> <<>>]
OldClient == [exists |-> TRUE, content |-> <<Import("'", <<"old">>)>>]
PartialClient == [exists |-> TRUE, content |-> <<>>]

\* fs.ensureDirSync(dir): the directory and its ancestors exist afterwards.
EnsureDir(ds, dir) == ds \cup {SubSeq(dir, 1, k) : k \in 1..Len(dir)}

\* fs.existsSync of a page file.
PageFileExists(files, ds, p) == PageFileDir(p) \in ds /\ files[p] # Absent


\* ------------------------------------------------------------------ state
VARIABLES
  opts,         \* GenerateOptions of the generate call: type and name
  selectedType, \* selectedType of generate
  gen,          \* the promise of generate: called, selected, loaded, resolved, rejected
  genErr,       \* the error generate rejected with
  userConfig,   \* what loadConfig returns for the project
  config,       \* rawConfig, the object the handler receives and mutates
  handler,      \* the handler's own call: none, running, done, failed
  handlerErr,   \* the error the handler threw or rejected with
  hpc,          \* where a running handler is suspended
  dirs,         \* the directories that exist
  pageFiles,    \* content of each file under src/pages
  twFiles,      \* content of tailwind.config.js and src/tailwind.css
  clientFile,   \* src/client.tsx
  template,     \* src/.tnf/client.tsx
  cfgFile,      \* text of the configuration file
  w,            \* the calls of writeFileWithConfirmation, by target
  cfgResult,    \* the call of updateConfigFile: none, pending, success, failed
  processed,    \* processedContent of generateEntry
  syncCalls,    \* calls of sync made by this request
  start,        \* the file system as the request found it
  ctxArgv,      \* context.argv._ of generate.ts
  ctxGen,       \* the promise of generate of generate.ts
  ctxHandler,   \* the handler generate.ts awaits
  ipContent,    \* arguments and results of processImportPaths
  ipSource,
  ipDest,
  ipOnce,
  ipTwice,
  ipPc

reqVars == <<opts, selectedType, gen, genErr, userConfig, config, handler, handlerErr, hpc>>
fsVars == <<dirs, pageFiles, twFiles, clientFile, template, cfgFile>>
runVars == <<w, cfgResult, processed, syncCalls, start>>
ctxVars == <<ctxArgv, ctxGen, ctxHandler>>
ipVars == <<ipContent, ipSource, ipDest, ipOnce, ipTwice, ipPc>>
vars == <<reqVars, fsVars, runVars, ctxVars, ipVars>>

\* ------------------------------------------------------------- dispatcher
\* generateCommands: what the select prompt offers.
generateCommands == {"entry", "tailwindcss"}
\* The keys of commandHandler.
CommandTypes == {"page", "tailwindcss", "entry"}
\* Keys commandHandler inherits from Object.prototype.
PrototypeKeys == {"toString"}
\* The types a request may carry; "" is no type.
Types == {"", "page", "tailwindcss", "entry", "bogus", "toString"}

\* selectedType in commandHandler: the in operator sees inherited keys too.
InCommandHandler(type) == type \in CommandTypes \cup PrototypeKeys

\* rawConfig after lines 51-57: entry.client is forced to 'src/client.tsx'.
ForceClientEntry(raw) ==
  IF raw.entry.has
  THEN [raw EXCEPT !.entry.client = ClientPath]
  ELSE [raw EXCEPT !.entry = [has |-> TRUE, client |-> ClientPath, server |-> Undef]]

NoConfigYet == [title |-> Undef, entry |-> NoEntry, tailwindcss |-> "undefined"]

WriterIds == TailwindFiles \cup {"src/client.tsx"}
IdleWriter == [pc |-> "idle", existed |-> FALSE, asked |-> FALSE,
               answer |-> "none", result |-> "none"]

\* The file system a request starts from.
Snapshot(ds, pf, tf, cf, cfg) ==
  [dirs |-> ds, pageFiles |-> pf, twFiles |-> tf, clientFile |-> cf, cfgFile |-> cfg]

\* generate has checked the type it was given or the prompt returned.
TypeSettled == gen = "selected" \/ (gen = "called" /\ opts.type # "")

\* await select(...): the user picks one of generateCommands.
SelectCommand ==
  /\ gen = "called"
  /\ opts.type = ""
  /\ \E command \in generateCommands : selectedType' = command
  /\ gen' = "selected"
  /\ UNCHANGED <<opts, genErr, userConfig, config, handler, handlerErr, hpc>>
  /\ UNCHANGED <<fsVars, runVars, ctxVars, ipVars>>

\* throw new Error(`Unknown command: ${selectedType}`)
UnknownCommand ==
  /\ TypeSettled
  /\ ~InCommandHandler(selectedType)
  /\ gen' = "rejected"
  /\ genErr' = "Unknown command"
  /\ UNCHANGED <<opts, selectedType, userConfig, config, handler, handlerErr, hpc>>
  /\ UNCHANGED <<fsVars, runVars, ctxVars, ipVars>>

\* await loadConfig({ cwd }) and the normalisation of rawConfig.entry.
LoadConfig ==
  /\ TypeSettled
  /\ InCommandHandler(selectedType)
  /\ config' = ForceClientEntry(userConfig)
  /\ gen' = "loaded"
  /\ UNCHANGED <<opts, selectedType, genErr, userConfig, handler, handlerErr, hpc>>
  /\ UNCHANGED <<fsVars, runVars, ctxVars, ipVars>>

\* commandHandler['toString'](...): Object.prototype.toString returns a
\* string and writes nothing; generate resolves.
DispatchInherited ==
  /\ gen = "loaded"
  /\ selectedType \in PrototypeKeys
  /\ handler' = "done"
  /\ gen' = "resolved"
  /\ UNCHANGED <<opts, selectedType, genErr, userConfig, config, handlerErr, hpc>>
  /\ UNCHANGED <<fsVars, runVars, ctxVars, ipVars>>

\* ---------------------------------------------------------- generatePage
\* A faulty variant, for comparison: the page counts as existing only when both files exist.
BothPageFilesExist(files, ds, name) ==
  PageFileExists(files, ds, PagePath(name)) /\ PageFileExists(files, ds, StyleModulePath(name))

\* The negation of the second assertion's condition.
PageExists(files, ds, name) ==
  PageFileExists(files, ds, PagePath(name)) \/ PageFileExists(files, ds, StyleModulePath(name))

\* A synchronous handler that throws: the error leaves generate too.
PageThrows(err) ==
  /\ handler' = "failed"
  /\ handlerErr' = err
  /\ gen' = "rejected"
  /\ genErr' = err
  /\ UNCHANGED <<opts, selectedType, userConfig, config, hpc>>
  /\ UNCHANGED <<twFiles, clientFile, template, cfgFile, runVars, ctxVars, ipVars>>

\* assert(opts.name, 'Name is required')
PageNameMissing ==
  /\ gen = "loaded"
  /\ selectedType = "page"
  /\ opts.name = ""
  /\ PageThrows("Name is required")
  /\ UNCHANGED <<dirs, pageFiles>>

\* assert(!existsSync(pagePath) && !existsSync(styleModulePath), ...)
PageAlreadyExists ==
  /\ gen = "loaded"
  /\ selectedType = "page"
  /\ opts.name # ""
  /\ PageExists(pageFiles, dirs, opts.name)
  /\ PageThrows("Page already exists")
  /\ UNCHANGED <<dirs, pageFiles>>

\* fs.ensureDirSync(pagesDir), then fs.writeFileSync(pagePath, ...) throws
\* ENOENT: the directory of a nested name is not created.
PageWriteNoDirectory ==
  /\ gen = "loaded"
  /\ selectedType = "page"
  /\ opts.name # ""
  /\ ~PageExists(pageFiles, dirs, opts.name)
  /\ dirs' = EnsureDir(dirs, PagesDir)
  /\ PageFileDir(PagePath(opts.name)) \notin dirs'
  /\ PageThrows("ENOENT")
  /\ UNCHANGED pageFiles

\* Both files are written; randomColor() picks the colour.
PageGenerated ==
  /\ gen = "loaded"
  /\ selectedType = "page"
  /\ opts.name # ""
  /\ ~PageExists(pageFiles, dirs, opts.name)
  /\ dirs' = EnsureDir(dirs, PagesDir)
  /\ PageFileDir(PagePath(opts.name)) \in dirs'
  /\ \E color \in Colors :
       pageFiles' = [pageFiles EXCEPT ![PagePath(opts.name)] = PageContent(opts.name),
                                      ![StyleModulePath(opts.name)] = StyleContent(color)]
  /\ handler' = "done"
  /\ gen' = "resolved"
  /\ UNCHANGED <<opts, selectedType, genErr, userConfig, config, handlerErr, hpc>>
  /\ UNCHANGED <<twFiles, clientFile, template, cfgFile, runVars, ctxVars, ipVars>>


\* ---------------------------------------------- writeFileWithConfirmation
\* fs.existsSync(filePath) for a target of the writer.
TargetExists(id) ==
  IF id = "src/client.tsx" THEN clientFile.exists ELSE twFiles[id] # Absent

\* The content the writer was called with.
TargetContent(id) ==
  IF id = "src/client.tsx" THEN processed ELSE TailwindContent(id)

\* A faulty variant, for comparison: the prompt is shown whether or not the file exists.
ConfirmAlways(exists) == TRUE

\* if (fs.existsSync(filePath)): confirm is called only for a file that exists.
ShouldConfirm(exists) == exists

\* The synchronous start of the writer: it is suspended in confirm(), or in
\* fs.writeFile() when there is nothing to confirm.
StartWriter(exists) ==
  IF ShouldConfirm(exists)
  THEN [pc |-> "confirm", existed |-> exists, asked |-> TRUE,
        answer |-> "none", result |-> "none"]
  ELSE [pc |-> "writing", existed |-> exists, asked |-> FALSE,
        answer |-> "none", result |-> "none"]

\* if (!shouldOverwrite) return { success: false, message: 'Skipped ...' }
Declined(wr) == [wr EXCEPT !.pc = "done", !.answer = "no", !.result = "skipped"]

\* success of the FileOperationResult.
Success(wr) == wr.result = "success"

\* The user answers yes: the writer goes on to fs.writeFile.
ConfirmYes(id) ==
  /\ w[id].pc = "confirm"
  /\ w' = [w EXCEPT ![id] = [@ EXCEPT !.pc = "writing", !.answer = "yes"]]
  /\ UNCHANGED <<reqVars, fsVars, cfgResult, processed, syncCalls, start, ctxVars, ipVars>>

\* The user answers no: the skip result, the file untouched.
ConfirmNo(id) ==
  /\ w[id].pc = "confirm"
  /\ w' = [w EXCEPT ![id] = Declined(@)]
  /\ UNCHANGED <<reqVars, fsVars, cfgResult, processed, syncCalls, start, ctxVars, ipVars>>

\* await fs.writeFile(filePath, content) returns.
WriteSucceeds(id) ==
  /\ w[id].pc = "writing"
  /\ IF id = "src/client.tsx"
     THEN /\ clientFile' = [exists |-> TRUE, content |-> TargetContent(id)]
          /\ UNCHANGED twFiles
     ELSE /\ twFiles' = [twFiles EXCEPT ![id] = TargetContent(id)]
          /\ UNCHANGED clientFile
  /\ w' = [w EXCEPT ![id] = [@ EXCEPT !.pc = "done", !.result = "success"]]
  /\ UNCHANGED <<reqVars, dirs, pageFiles, template, cfgFile>>
  /\ UNCHANGED <<cfgResult, processed, syncCalls, start, ctxVars, ipVars>>

\* await fs.writeFile throws: the catch block returns the failure result.
\* The file is as it was, or holds part of the content.
WriteFails(id) ==
  /\ w[id].pc = "writing"
  /\ IF id = "src/client.tsx"
     THEN /\ clientFile' \in {clientFile, PartialClient}
          /\ UNCHANGED twFiles
     ELSE /\ twFiles' \in {twFiles, [twFiles EXCEPT ![id] = Partial]}
          /\ UNCHANGED clientFile
  /\ w' = [w EXCEPT ![id] = [@ EXCEPT !.pc = "done", !.result = "failed"]]
  /\ UNCHANGED <<reqVars, dirs, pageFiles, template, cfgFile>>
  /\ UNCHANGED <<cfgResult, processed, syncCalls, start, ctxVars, ipVars>>

\* --------------------------------------------------------- updateConfigFile
\* await fs.writeFile(configPath, configContent) returns: the handler logs
\* and ends.
ConfigWriteSucceeds ==
  /\ cfgResult = "pending"
  /\ cfgFile' = ConfigContent(config)
  /\ cfgResult' = "success"
  /\ handler' = "done"
  /\ hpc' = "end"
  /\ UNCHANGED <<opts, selectedType, gen, genErr, userConfig, config, handlerErr>>
  /\ UNCHANGED <<dirs, pageFiles, twFiles, clientFile, template>>
  /\ UNCHANGED <<w, processed, syncCalls, start, ctxVars, ipVars>>

\* The write throws: the catch block returns the failure result, which the
\* handler does not log.
ConfigWriteFails ==
  /\ cfgResult = "pending"
  /\ cfgFile' \in {cfgFile, PartialText}
  /\ cfgResult' = "failed"
  /\ handler' = "done"
  /\ hpc' = "end"
  /\ UNCHANGED <<opts, selectedType, gen, genErr, userConfig, config, handlerErr>>
  /\ UNCHANGED <<dirs, pageFiles, twFiles, clientFile, template>>
  /\ UNCHANGED <<w, processed, syncCalls, start, ctxVars, ipVars>>

\* ------------------------------------------------------ generateTailwindcss
\* A faulty variant, for comparison: the update waits for the first of the two writers only.
PromiseAny(ids) == \E id \in ids : w[id].pc = "done"

\* await Promise.all([...]): every writer has returned its result.
PromiseAll(ids) == \A id \in ids : w[id].pc = "done"

\* A faulty variant, for comparison: the flag is left as it was loaded.
KeepTailwindFlag(conf) == conf

\* config.tailwindcss = true
SetTailwindFlag(conf) == [conf EXCEPT !.tailwindcss = "true"]

\* The call of the handler up to its first await: src is ensured and both
\* writers run to their own first await. generate does not await the
\* handler and resolves.
DispatchTailwind ==
  /\ gen = "loaded"
  /\ selectedType = "tailwindcss"
  /\ dirs' = EnsureDir(dirs, SrcDir)
  /\ w' = [id \in WriterIds |->
             IF id \in TailwindFiles THEN StartWriter(TargetExists(id)) ELSE w[id]]
  /\ handler' = "running"
  /\ hpc' = "Promise.all"
  /\ gen' = "resolved"
  /\ UNCHANGED <<opts, selectedType, genErr, userConfig, config, handlerErr>>
  /\ UNCHANGED <<pageFiles, twFiles, clientFile, template, cfgFile>>
  /\ UNCHANGED <<cfgResult, processed, syncCalls, start, ctxVars, ipVars>>

\* Promise.all has settled: the flag is set and updateConfigFile called.
TailwindUpdateConfig ==
  /\ handler = "running"
  /\ hpc = "Promise.all"
  /\ PromiseAll(TailwindFiles)
  /\ config' = SetTailwindFlag(config)
  /\ cfgResult' = "pending"
  /\ hpc' = "updateConfigFile"
  /\ UNCHANGED <<opts, selectedType, gen, genErr, userConfig, handler, handlerErr>>
  /\ UNCHANGED <<fsVars, w, processed, syncCalls, start, ctxVars, ipVars>>


\* ------------------------------------------------------------ generateEntry
\* A faulty variant, for comparison: sync is called whether or not the directory exists.
NeedsSyncAlways(ds) == TRUE

\* if (!fs.existsSync(tnfPath))
NeedsSync(ds) == TnfPath \notin ds

\* fs.existsSync(clientSrcPath)
TemplateExists == TnfPath \in dirs /\ template.exists

\* config.entry = { ...config.entry, client: 'src/client.tsx' }
SetClientEntry(conf) ==
  [conf EXCEPT !.entry = [has |-> TRUE, client |-> ClientPath, server |-> conf.entry.server]]

\* if (writeResult.success)
WriteResultSuccess(wr) == Success(wr)

\* An async handler is called: generate does not await it and resolves,
\* whatever becomes of the handler.
GenerateReturns ==
  /\ gen' = "resolved"
  /\ UNCHANGED <<opts, selectedType, genErr, userConfig, config>>

\* throw new Error('client.tsx template not found in .tnf directory'): the
\* handler's promise is rejected.
EntryRejects ==
  /\ handler' = "failed"
  /\ handlerErr' = "template not found"
  /\ hpc' = "end"

\* The directory is missing: the handler stops at await loadConfig, the
\* argument of sync.
DispatchEntryNeedsSync ==
  /\ gen = "loaded"
  /\ selectedType = "entry"
  /\ NeedsSync(dirs)
  /\ handler' = "running"
  /\ hpc' = "loadConfig"
  /\ GenerateReturns
  /\ UNCHANGED <<handlerErr, fsVars, runVars, ctxVars, ipVars>>

\* The directory exists and the template does not: the handler throws
\* before its first await.
DispatchEntryNoTemplate ==
  /\ gen = "loaded"
  /\ selectedType = "entry"
  /\ ~NeedsSync(dirs)
  /\ ~TemplateExists
  /\ EntryRejects
  /\ GenerateReturns
  /\ UNCHANGED <<fsVars, runVars, ctxVars, ipVars>>

\* The directory and the template exist: the handler stops at
\* await fs.readFile.
DispatchEntryReadTemplate ==
  /\ gen = "loaded"
  /\ selectedType = "entry"
  /\ ~NeedsSync(dirs)
  /\ TemplateExists
  /\ handler' = "running"
  /\ hpc' = "readFile"
  /\ GenerateReturns
  /\ UNCHANGED <<handlerErr, fsVars, runVars, ctxVars, ipVars>>

\* loadConfig has returned: sync({ config, cwd, tmpPath, mode }) is called.
EntryCallSync ==
  /\ handler = "running"
  /\ hpc = "loadConfig"
  /\ syncCalls' = syncCalls + 1
  /\ hpc' = "sync"
  /\ UNCHANGED <<opts, selectedType, gen, genErr, userConfig, config, handler, handlerErr>>
  /\ UNCHANGED <<fsVars, w, cfgResult, processed, start, ctxVars, ipVars>>

\* sync returns, having written the template into the directory.
SyncWritesTemplate ==
  /\ handler = "running"
  /\ hpc = "sync"
  /\ dirs' = EnsureDir(dirs, TnfPath)
  /\ \E content \in TemplateContents : template' = [exists |-> TRUE, content |-> content]
  /\ hpc' = "synced"
  /\ UNCHANGED <<opts, selectedType, gen, genErr, userConfig, config, handler, handlerErr, pageFiles, twFiles, clientFile, cfgFile>>
  /\ UNCHANGED <<runVars, ctxVars, ipVars>>

\* sync returns without a client.tsx: with the directory made, or without.
SyncWritesNoTemplate ==
  /\ handler = "running"
  /\ hpc = "sync"
  /\ dirs' \in {dirs, EnsureDir(dirs, TnfPath)}
  /\ hpc' = "synced"
  /\ UNCHANGED <<opts, selectedType, gen, genErr, userConfig, config, handler, handlerErr>>
  /\ UNCHANGED <<pageFiles, twFiles, clientFile, template, cfgFile>>
  /\ UNCHANGED <<runVars, ctxVars, ipVars>>

\* After sync the template is still missing: the handler's promise is
\* rejected.
EntryNoTemplateAfterSync ==
  /\ handler = "running"
  /\ hpc = "synced"
  /\ ~TemplateExists
  /\ EntryRejects
  /\ UNCHANGED <<opts, selectedType, gen, genErr, userConfig, config>>
  /\ UNCHANGED <<fsVars, runVars, ctxVars, ipVars>>

\* After sync the template exists: the handler stops at await fs.readFile.
EntryReadAfterSync ==
  /\ handler = "running"
  /\ hpc = "synced"
  /\ TemplateExists
  /\ hpc' = "readFile"
  /\ UNCHANGED <<opts, selectedType, gen, genErr, userConfig, config, handler, handlerErr>>
  /\ UNCHANGED <<fsVars, runVars, ctxVars, ipVars>>

\* readFile returns: the imports are rewritten and the writer is called; it
\* runs to its first await.
EntryWriteClient ==
  /\ handler = "running"
  /\ hpc = "readFile"
  /\ processed' = processImportPaths(template.content, ClientSrcPath, ClientDestPath)
  /\ w' = [w EXCEPT !["src/client.tsx"] = StartWriter(TargetExists("src/client.tsx"))]
  /\ hpc' = "writeFileWithConfirmation"
  /\ UNCHANGED <<opts, selectedType, gen, genErr, userConfig, config, handler, handlerErr>>
  /\ UNCHANGED <<fsVars, cfgResult, syncCalls, start, ctxVars, ipVars>>

\* The writer returned success: entry.client is set and updateConfigFile
\* is called.
EntryUpdateConfig ==
  /\ handler = "running"
  /\ hpc = "writeFileWithConfirmation"
  /\ w["src/client.tsx"].pc = "done"
  /\ WriteResultSuccess(w["src/client.tsx"])
  /\ config' = SetClientEntry(config)
  /\ cfgResult' = "pending"
  /\ hpc' = "updateConfigFile"
  /\ UNCHANGED <<opts, selectedType, gen, genErr, userConfig, handler, handlerErr>>
  /\ UNCHANGED <<fsVars, w, processed, syncCalls, start, ctxVars, ipVars>>

\* The writer returned a skip or a failure: the handler ends, the
\* configuration untouched.
EntryNoUpdate ==
  /\ handler = "running"
  /\ hpc = "writeFileWithConfirmation"
  /\ w["src/client.tsx"].pc = "done"
  /\ ~WriteResultSuccess(w["src/client.tsx"])
  /\ handler' = "done"
  /\ hpc' = "end"
  /\ UNCHANGED <<opts, selectedType, gen, genErr, userConfig, config, handlerErr>>
  /\ UNCHANGED <<fsVars, runVars, ctxVars, ipVars>>

\* ----------------------------------------- generate of generate/generate.ts
\* const type = context.argv._[1]
CtxType == IF Len(ctxArgv) >= 2 THEN ctxArgv[2] ELSE ""
CtxArgvs == {<<"generate">>, <<"generate", "page", "about">>,
             <<"generate", "tailwindcss">>, <<"generate", "entry">>}

\* context.argv._ = context.argv._.slice(2)
Slice2(argv) == SubSeq(argv, 3, Len(argv))

\* if (!type) throw new Error('Not implemented')
CtxNotImplemented ==
  /\ ctxGen = "called"
  /\ CtxType = ""
  /\ ctxArgv' = Slice2(ctxArgv)
  /\ ctxGen' = "rejected"
  /\ UNCHANGED <<ctxHandler, reqVars, fsVars, runVars, ipVars>>

\* else throw new Error(`Unknown type: ${type}`)
CtxUnknownType ==
  /\ ctxGen = "called"
  /\ CtxType \notin {"", "page", "tailwindcss"}
  /\ ctxArgv' = Slice2(ctxArgv)
  /\ ctxGen' = "rejected"
  /\ UNCHANGED <<ctxHandler, reqVars, fsVars, runVars, ipVars>>

\* return await generatePage({ context }) / generateTailwindcss({ context })
CtxAwaitHandler ==
  /\ ctxGen = "called"
  /\ CtxType \in {"page", "tailwindcss"}
  /\ ctxArgv' = Slice2(ctxArgv)
  /\ ctxGen' = "awaiting"
  /\ ctxHandler' = "running"
  /\ UNCHANGED <<reqVars, fsVars, runVars, ipVars>>

\* The awaited handler returns: generate resolves.
CtxHandlerReturns ==
  /\ ctxGen = "awaiting"
  /\ ctxHandler = "running"
  /\ ctxHandler' = "done"
  /\ ctxGen' = "resolved"
  /\ UNCHANGED <<ctxArgv, reqVars, fsVars, runVars, ipVars>>

\* The awaited handler throws: generate rejects with its error.
CtxHandlerThrows ==
  /\ ctxGen = "awaiting"
  /\ ctxHandler = "running"
  /\ ctxHandler' = "failed"
  /\ ctxGen' = "rejected"
  /\ UNCHANGED <<ctxArgv, reqVars, fsVars, runVars, ipVars>>

\* ------------------------------------------ calls of processImportPaths
\* The content is rewritten for the destination.
RewriteOnce ==
  /\ ipPc = "input"
  /\ ipOnce' = processImportPaths(ipContent, ipSource, ipDest)
  /\ ipPc' = "once"
  /\ UNCHANGED <<ipContent, ipSource, ipDest, ipTwice>>
  /\ UNCHANGED <<reqVars, fsVars, runVars, ctxVars>>

\* The rewritten content is rewritten again for the same destination.
RewriteTwice ==
  /\ ipPc = "once"
  /\ ipTwice' = processImportPaths(ipOnce, ipSource, ipDest)
  /\ ipPc' = "twice"
  /\ UNCHANGED <<ipContent, ipSource, ipDest, ipOnce>>
  /\ UNCHANGED <<reqVars, fsVars, runVars, ctxVars>>


\* ------------------------------------------------------------ initial states
\* A configuration for requests that never write it.
PlainConfig == [title |-> <<"a">>, entry |-> NoEntry, tailwindcss |-> "undefined"]

\* generate has just been called with these options.
RequestCalled(types, names, configs) ==
  /\ opts \in [type : types, name : names]
  /\ selectedType = opts.type
  /\ gen = "called"
  /\ genErr = ""
  /\ userConfig \in configs
  /\ config = NoConfigYet
  /\ handler = "none"
  /\ handlerErr = ""
  /\ hpc = "start"

\* Nothing of the request has run yet.
RunNotStarted ==
  /\ w = [id \in WriterIds |-> IdleWriter]
  /\ cfgResult = "none"
  /\ processed = <<>>
  /\ syncCalls = 0
  /\ start = Snapshot(dirs, pageFiles, twFiles, clientFile, cfgFile)

NoPageFiles == [p \in PagePaths |-> Absent]
NoTailwindFiles == [id \in TailwindFiles |-> Absent]

\* The project holds src/pages to some depth, and page files in the
\* directories that exist.
ProjectWithPages ==
  /\ dirs \in {{Cwd}, {Cwd, SrcDir}, {Cwd, SrcDir, PagesDir},
               {Cwd, SrcDir, PagesDir, Join(PagesDir, <<"admin">>)}}
  /\ pageFiles \in {f \in [PagePaths -> {Absent, Old}] :
                      \A p \in PagePaths : f[p] # Absent => PageFileDir(p) \in dirs}
  /\ twFiles = NoTailwindFiles
  /\ clientFile = NoFile
  /\ template = NoFile
  /\ cfgFile = OriginalText

\* The project may hold either tailwind file, src/client.tsx and a
\* configuration file.
ProjectWithTailwind ==
  /\ dirs \in {{Cwd}, {Cwd, SrcDir}}
  /\ pageFiles = NoPageFiles
  /\ twFiles \in {f \in [TailwindFiles -> {Absent, Old}] :
                    f["src/tailwind.css"] # Absent => SrcDir \in dirs}
  /\ clientFile \in {c \in {NoFile, OldClient} : c.exists => SrcDir \in dirs}
  /\ template = NoFile
  /\ cfgFile \in {Absent, OriginalText}

\* The project may hold src/.tnf, the template in it, src/client.tsx and a
\* configuration file.
ProjectWithEntry ==
  /\ dirs \in {{Cwd, SrcDir}, {Cwd, SrcDir, TnfPath}}
  /\ pageFiles = NoPageFiles
  /\ twFiles = NoTailwindFiles
  /\ clientFile \in {NoFile, OldClient}
  /\ template \in {NoFile} \cup
                  {t \in [exists : {TRUE}, content : TemplateContents] : TnfPath \in dirs}
  /\ cfgFile \in {Absent, OriginalText}

EmptyProject ==
  /\ dirs = {Cwd}
  /\ pageFiles = NoPageFiles
  /\ twFiles = NoTailwindFiles
  /\ clientFile = NoFile
  /\ template = NoFile
  /\ cfgFile = OriginalText

NoRequest ==
  /\ opts = [type |-> "", name |-> ""]
  /\ selectedType = ""
  /\ gen = "idle"
  /\ genErr = ""
  /\ userConfig = PlainConfig
  /\ config = NoConfigYet
  /\ handler = "none"
  /\ handlerErr = ""
  /\ hpc = "start"

CtxIdle == ctxArgv = <<>> /\ ctxGen = "idle" /\ ctxHandler = "none"

RewriterIdle ==
  /\ ipContent = <<>>
  /\ ipSource = <<>>
  /\ ipDest = <<>>
  /\ ipOnce = <<>>
  /\ ipTwice = <<>>
  /\ ipPc = "idle"

\* The files processImportPaths is called for; the first two are the
\* template and the destination of generateEntry.
ImportFiles == {ClientSrcPath, ClientDestPath, Join(Cwd, <<"src", "main.tsx">>),
                Join(Cwd, <<"index.tsx">>)}
\* Import specifiers: one to MaxSpecLen segments.
Specifiers == UNION {[1..n -> Segments] : n \in 1..MaxSpecLen}
ImportStatements == [q : Quotes, path : Specifiers]
Contents == UNION {[1..n -> ImportStatements] : n \in 0..MaxImports}

InitPage ==
  /\ RequestCalled({"page"}, Names, {PlainConfig})
  /\ ProjectWithPages
  /\ RunNotStarted
  /\ CtxIdle
  /\ RewriterIdle

InitTailwind ==
  /\ RequestCalled({"tailwindcss"}, {""}, Configs)
  /\ ProjectWithTailwind
  /\ RunNotStarted
  /\ CtxIdle
  /\ RewriterIdle

InitEntry ==
  /\ RequestCalled({"entry"}, {""}, Configs)
  /\ ProjectWithEntry
  /\ RunNotStarted
  /\ CtxIdle
  /\ RewriterIdle

\* A request with no type, or a type that names no generator.
InitOther ==
  /\ RequestCalled({"", "bogus", "toString"}, {""}, {PlainConfig})
  /\ EmptyProject
  /\ RunNotStarted
  /\ CtxIdle
  /\ RewriterIdle

\* generate of generate/generate.ts is called.
InitCtx ==
  /\ NoRequest
  /\ EmptyProject
  /\ RunNotStarted
  /\ ctxArgv \in CtxArgvs
  /\ ctxGen = "called"
  /\ ctxHandler = "none"
  /\ RewriterIdle

\* processImportPaths is about to be called.
InitRewrite ==
  /\ NoRequest
  /\ EmptyProject
  /\ RunNotStarted
  /\ CtxIdle
  /\ ipContent \in Contents
  /\ ipSource \in ImportFiles
  /\ ipDest \in ImportFiles
  /\ ipOnce = <<>>
  /\ ipTwice = <<>>
  /\ ipPc = "input"

Init == InitPage \/ InitTailwind \/ InitEntry \/ InitOther \/ InitCtx \/ InitRewrite

\* ------------------------------------------------------------ specifications
\* The command is run again on the project as the last run left it.
NewPageRequest ==
  /\ opts.type = "page"
  /\ gen \in {"resolved", "rejected"}
  /\ handler \in {"done", "failed"}
  /\ \E name \in Names : opts' = [type |-> "page", name |-> name]
  /\ selectedType' = "page"
  /\ gen' = "called"
  /\ genErr' = ""
  /\ config' = NoConfigYet
  /\ handler' = "none"
  /\ handlerErr' = ""
  /\ start' = Snapshot(dirs, pageFiles, twFiles, clientFile, cfgFile)
  /\ UNCHANGED <<userConfig, hpc, fsVars, w, cfgResult, processed, syncCalls>>
  /\ UNCHANGED <<ctxVars, ipVars>>

PageActions ==
  \/ PageNameMissing
  \/ PageAlreadyExists
  \/ PageWriteNoDirectory
  \/ PageGenerated
  \/ NewPageRequest

WriterActions ==
  \E id \in WriterIds :
    \/ ConfirmYes(id)
    \/ ConfirmNo(id)
    \/ WriteSucceeds(id)
    \/ WriteFails(id)

UpdaterActions == ConfigWriteSucceeds \/ ConfigWriteFails

TailwindActions == DispatchTailwind \/ TailwindUpdateConfig

EntryActions ==
  \/ DispatchEntryNeedsSync
  \/ DispatchEntryNoTemplate
  \/ DispatchEntryReadTemplate
  \/ EntryCallSync
  \/ SyncWritesTemplate
  \/ SyncWritesNoTemplate
  \/ EntryNoTemplateAfterSync
  \/ EntryReadAfterSync
  \/ EntryWriteClient
  \/ EntryUpdateConfig
  \/ EntryNoUpdate

CtxActions ==
  \/ CtxNotImplemented
  \/ CtxUnknownType
  \/ CtxAwaitHandler
  \/ CtxHandlerReturns
  \/ CtxHandlerThrows

RewriteActions == RewriteOnce \/ RewriteTwice

NextPage == LoadConfig \/ PageActions
NextTailwind == LoadConfig \/ TailwindActions \/ WriterActions \/ UpdaterActions
NextEntry == LoadConfig \/ EntryActions \/ WriterActions \/ UpdaterActions

Next ==
  \/ SelectCommand
  \/ UnknownCommand
  \/ LoadConfig
  \/ DispatchInherited
  \/ PageActions
  \/ TailwindActions
  \/ EntryActions
  \/ WriterActions
  \/ UpdaterActions
  \/ CtxActions
  \/ RewriteActions

Spec == Init /\ [][Next]_vars
SpecPage == InitPage /\ [][NextPage]_vars
SpecTailwind == InitTailwind /\ [][NextTailwind]_vars
SpecEntry == InitEntry /\ [][NextEntry]_vars
SpecRewrite == InitRewrite /\ [][RewriteActions]_vars
\* Both uses of the confirmation-gated writer.
SpecWriter == (InitTailwind \/ InitEntry) /\ [][NextTailwind \/ NextEntry]_vars


\* ------------------------------------------------------------------ claims
\* The file a writer targets, as the request found it and as it is now.
ExistedAtStart(id) ==
  IF id = "src/client.tsx" THEN start.clientFile.exists ELSE start.twFiles[id] # Absent
TargetUnchanged(id) ==
  IF id = "src/client.tsx" THEN clientFile = start.clientFile
  ELSE twFiles[id] = start.twFiles[id]
TargetWritten(id) ==
  IF id = "src/client.tsx" THEN clientFile = [exists |-> TRUE, content |-> processed]
  ELSE twFiles[id] = TailwindContent(id)
TargetPartial(id) ==
  IF id = "src/client.tsx" THEN clientFile = PartialClient ELSE twFiles[id] = Partial
\* The writer went on to fs.writeFile: nothing to confirm, or the answer yes.
WriteAttempted(id) == ~ExistedAtStart(id) \/ w[id].answer = "yes"
WriteDeclined(id) == ExistedAtStart(id) /\ w[id].answer = "no"

\* C1 as stated: a writer that has returned left a file it was refused
\* untouched and returned the skip result; otherwise the file holds the
\* content and the result is a success; it asked only about a file that
\* existed.
C1_WriterAsStated ==
  \A id \in WriterIds :
    /\ w[id].asked => ExistedAtStart(id)
    /\ w[id].pc = "done" =>
         /\ w[id].asked <=> ExistedAtStart(id)
         /\ WriteDeclined(id) => TargetUnchanged(id) /\ ~Success(w[id])
         /\ WriteAttempted(id) => TargetWritten(id) /\ Success(w[id])

\* C1 amended: a write that was attempted either succeeded, and then the
\* file holds the content and the result is a success, or failed with an
\* I/O error, and then the result is the failure result and the file is as
\* it was or partly written. The rest is as stated.
C1_WriterGated ==
  \A id \in WriterIds :
    /\ w[id].asked => ExistedAtStart(id)
    /\ w[id].pc = "done" =>
         /\ w[id].asked <=> ExistedAtStart(id)
         /\ WriteDeclined(id) =>
              TargetUnchanged(id) /\ w[id].result = "skipped" /\ ~Success(w[id])
         /\ WriteAttempted(id) =>
              \/ Success(w[id]) /\ TargetWritten(id)
              \/ /\ w[id].result = "failed"
                 /\ ~Success(w[id])
                 /\ TargetUnchanged(id) \/ TargetPartial(id)

\* An existing file was overwritten after the answer yes.
C1_Witness ==
  \E id \in WriterIds :
    /\ w[id].pc = "done"
    /\ ExistedAtStart(id)
    /\ w[id].answer = "yes"
    /\ Success(w[id])
    /\ TargetWritten(id)
    /\ ~TargetUnchanged(id)

\* The page request has ended, with a name.
PageRunEnded == opts.type = "page" /\ opts.name # "" /\ gen \in {"resolved", "rejected"}
ExistedBefore(p) == PageFileExists(start.pageFiles, start.dirs, p)
NeitherPageFileExisted ==
  ~ExistedBefore(PagePath(opts.name)) /\ ~ExistedBefore(StyleModulePath(opts.name))
\* Exactly the two files of the name were created.
ExactlyTwoCreated ==
  \E color \in Colors :
    pageFiles = [start.pageFiles EXCEPT ![PagePath(opts.name)] = PageContent(opts.name),
                                        ![StyleModulePath(opts.name)] = StyleContent(color)]
PageRunAsserted ==
  /\ handler = "failed"
  /\ handlerErr = "Page already exists"
  /\ gen = "rejected"
  /\ pageFiles = start.pageFiles
\* The directory of the two files exists once src/pages has been ensured.
PageDirReady == PageFileDir(PagePath(opts.name)) \in EnsureDir(start.dirs, PagesDir)

\* C2 as stated: for every non-empty name, a run that found neither file
\* created exactly the two; a run that found either failed its assertion
\* and changed no file.
C2_PageAsStated ==
  PageRunEnded =>
    IF NeitherPageFileExisted
    THEN handler = "done" /\ gen = "resolved" /\ ExactlyTwoCreated
    ELSE PageRunAsserted

\* C2 amended: the two files are created when their directory exists once
\* src/pages has been ensured; for a nested name whose directory is missing
\* the first write throws ENOENT and no file is created. A run that found
\* either file failed its assertion and changed no file.
C2_PageGenerated ==
  PageRunEnded =>
    IF ~NeitherPageFileExisted THEN PageRunAsserted
    ELSE IF PageDirReady
    THEN handler = "done" /\ gen = "resolved" /\ ExactlyTwoCreated
    ELSE /\ handler = "failed"
         /\ handlerErr = "ENOENT"
         /\ gen = "rejected"
         /\ pageFiles = start.pageFiles

\* A second run for a name found the files an earlier run had generated and
\* failed its assertion.
C2_Witness ==
  /\ PageRunEnded
  /\ PageRunAsserted
  /\ start.pageFiles[PagePath(opts.name)] = PageContent(opts.name)
  /\ \E color \in Colors : start.pageFiles[StyleModulePath(opts.name)] = StyleContent(color)

\* updateConfigFile has been called by the tailwind handler.
ConfigUpdateStarted == cfgResult # "none" \/ hpc \in {"updateConfigFile", "end"}

\* C3: in every interleaving of the two writers and their prompts, the
\* flag is set and the configuration update started only when both writers
\* have returned, whatever each returned.
C3_UpdateAfterBothWrites ==
  selectedType = "tailwindcss" /\ ConfigUpdateStarted =>
    \A id \in TailwindFiles : w[id].pc = "done" /\ w[id].result # "none"

\* The update has started after one write was skipped and the other failed.
C3_Witness ==
  /\ ConfigUpdateStarted
  /\ w["tailwind.config.js"].result = "failed"
  /\ w["src/tailwind.css"].result = "skipped"

RECURSIVE ContainsAt(_, _, _)
ContainsAt(text, sub, i) ==
  IF i + Len(sub) - 1 > Len(text) THEN FALSE
  ELSE SubSeq(text, i, i + Len(sub) - 1) = sub \/ ContainsAt(text, sub, i + 1)
\* sub occurs in text.
Contains(text, sub) == ContainsAt(text, sub, 1)

\* The text holds the property tailwindcss: true.
FlagPersisted(text) == Contains(text, <<"\n  ", "tailwindcss", ":", " ", "true">>)
TailwindRunEnded == selectedType = "tailwindcss" /\ hpc = "end"

\* C4 as stated: when neither file existed both are written and the
\* persisted flag is true; a declined file keeps its content, the other is
\* written on its own answer, and the flag is persisted as true.
C4_TailwindAsStated ==
  TailwindRunEnded =>
    /\ (\A id \in TailwindFiles : ~ExistedAtStart(id)) =>
         (\A id \in TailwindFiles : TargetWritten(id)) /\ FlagPersisted(cfgFile)
    /\ \A id \in TailwindFiles :
         WriteDeclined(id) =>
           /\ TargetUnchanged(id)
           /\ \A other \in TailwindFiles \ {id} :
                WriteAttempted(other) => TargetWritten(other)
           /\ FlagPersisted(cfgFile)

\* C4 amended: each file that did not exist or was confirmed is written
\* unless its write fails with an I/O error, which leaves it as it was or
\* partly written; a declined file keeps its content whatever happens to
\* the other; the flag is set to true and handed to the updater, and is in
\* the configuration file unless the updater's write fails.
C4_TailwindOutcomes ==
  TailwindRunEnded =>
    /\ \A id \in TailwindFiles :
         /\ WriteDeclined(id) \/ WriteAttempted(id)
         /\ WriteDeclined(id) => TargetUnchanged(id)
         /\ WriteAttempted(id) =>
              \/ Success(w[id]) /\ TargetWritten(id)
              \/ w[id].result = "failed" /\ (TargetUnchanged(id) \/ TargetPartial(id))
    /\ config.tailwindcss = "true"
    /\ cfgResult \in {"success", "failed"}
    /\ cfgResult = "success" => FlagPersisted(cfgFile)
    /\ cfgResult = "failed" => cfgFile \in {start.cfgFile, PartialText}

\* One overwrite was declined, the other file was written, and the flag,
\* which the configuration did not have, was persisted.
C4_Witness ==
  /\ TailwindRunEnded
  /\ WriteDeclined("tailwind.config.js")
  /\ twFiles["tailwind.config.js"] = Old
  /\ Success(w["src/tailwind.css"])
  /\ twFiles["src/tailwind.css"] = TailwindCSS
  /\ userConfig.tailwindcss # "true"
  /\ cfgResult = "success"
  /\ FlagPersisted(cfgFile)


EntryRunEnded == selectedType = "entry" /\ hpc = "end"
DirExistedAtStart == TnfPath \in start.dirs
\* The handler has gone past its call of sync.
PastSyncCall == hpc \notin {"start", "loadConfig"}
TemplateRead == hpc \in {"readFile", "writeFileWithConfirmation", "updateConfigFile"}
                \/ (hpc = "end" /\ handler = "done")

\* C5: sync is called once, before the template is read, when src/.tnf was
\* absent, and never when it existed; when the template is missing after
\* that step the handler fails with the template error and has written
\* neither src/client.tsx nor the configuration file.
C5_EntrySyncOnce ==
  selectedType = "entry" =>
    /\ DirExistedAtStart => syncCalls = 0
    /\ ~DirExistedAtStart => syncCalls = (IF PastSyncCall THEN 1 ELSE 0)
    /\ TemplateRead => TemplateExists
    /\ EntryRunEnded /\ ~TemplateExists =>
         /\ handler = "failed"
         /\ handlerErr = "template not found"
    /\ handlerErr = "template not found" =>
         /\ ~TemplateExists
         /\ clientFile = start.clientFile
         /\ cfgFile = start.cfgFile
         /\ w["src/client.tsx"].pc = "idle"
         /\ cfgResult = "none"

\* sync was called for a missing directory, made the directory but no
\* template, and the handler failed.
C5_Witness ==
  /\ EntryRunEnded
  /\ ~DirExistedAtStart
  /\ TnfPath \in dirs
  /\ syncCalls = 1
  /\ handlerErr = "template not found"

\* Module resolution: './x' and '../x' are resolved against the importing
\* file's directory, every other specifier as a package.
IsRelativeSpecifier(path) == path # <<>> /\ Head(path) \in {".", ".."}
ResolveImport(dir, path) ==
  IF IsRelativeSpecifier(path) THEN PathResolve(dir, path)
  ELSE <<"node_modules">> \o path

\* C6 as stated: every specifier that starts with '.' is rewritten to a
\* relative specifier that resolves, from the destination's directory, to
\* the file the original resolves to from the source's directory; every
\* other import is left as it is.
C6_RewriteKeepsTarget ==
  ipPc \in {"once", "twice"} =>
    \A i \in 1..Len(ipContent) :
      IF StartsWithDot(ipContent[i].path)
      THEN /\ IsRelativeSpecifier(ipOnce[i].path)
           /\ ResolveImport(Dirname(ipDest), ipOnce[i].path)
                = ResolveImport(Dirname(ipSource), ipContent[i].path)
      ELSE ipOnce[i] = ipContent[i]

\* C7 as stated: rewriting the rewritten content again, for the same
\* source and destination, gives the first result.
C7_IdempotentAsStated == ipPc = "twice" => ipTwice = ipOnce

\* C7 amended: it gives the first result when the source and the
\* destination lie in the same directory, as they do when the rewritten
\* file is processed again from where it was written.
C7_IdempotentSameDir ==
  ipPc = "twice" /\ Dirname(ipSource) = Dirname(ipDest) => ipTwice = ipOnce

\* A relative import was rewritten twice between two files of one directory.
C7_Witness ==
  /\ ipPc = "twice"
  /\ ipSource # ipDest
  /\ Dirname(ipSource) = Dirname(ipDest)
  /\ \E i \in 1..Len(ipContent) :
       /\ IsRelativeSpecifier(ipContent[i].path)
       /\ ipOnce[i] # ipContent[i]
       /\ ipTwice[i] = ipOnce[i]

\* C8 as stated: the error of a handler that fails its precondition is the
\* error generate rejects with, and a type that names no generator makes
\* generate reject; a handler generate.ts awaits fails generate too.
C8_ErrorsReachCaller ==
  /\ handler = "failed" => gen = "rejected" /\ genErr = handlerErr
  /\ gen \in {"resolved", "rejected"} /\ selectedType \notin CommandTypes =>
       gen = "rejected" /\ genErr = "Unknown command"
  /\ ctxHandler = "failed" => ctxGen = "rejected"

\* The configuration as a literal: keys without quotes, strings as
\* JSON.stringify writes them.
LiteralMember(indent, key, value) == <<indent, key, ":", " ">> \o value
EntryLiteral(e) ==
  LiteralMember("\n  ", "entry",
    JsonObject(
      (IF e.client = Undef THEN <<>>
       ELSE <<LiteralMember("\n    ", "client", JsonString(e.client))>>)
      \o (IF e.server = Undef THEN <<>>
          ELSE <<LiteralMember("\n    ", "server", JsonString(e.server))>>),
      "\n  "))
ConfigLiteral(conf) ==
  <<"export default ">> \o
  JsonObject(
    <<LiteralMember("\n  ", "title", JsonString(conf.title))>>
    \o (IF conf.entry.has THEN <<EntryLiteral(conf.entry)>> ELSE <<>>)
    \o (IF conf.tailwindcss = "undefined" THEN <<>>
        ELSE <<LiteralMember("\n  ", "tailwindcss", <<conf.tailwindcss>>)>>),
    "\n")

\* C9 as stated: updateConfigFile is called by an entry run exactly when
\* the write of src/client.tsx succeeded; otherwise the configuration file
\* is as it was; and the configuration it persists has entry.client
\* 'src/client.tsx' and the other entry fields as loaded.
C9_EntryConfigUpdate ==
  EntryRunEnded =>
    /\ cfgResult # "none" <=> Success(w["src/client.tsx"])
    /\ ~Success(w["src/client.tsx"]) => cfgFile = start.cfgFile
    /\ cfgResult = "success" =>
         Contains(cfgFile, EntryLiteral([has |-> TRUE, client |-> ClientPath,
                                         server |-> userConfig.entry.server]))

\* C10 as stated: the tailwind run calls updateConfigFile whatever exists,
\* and the configuration it persists is the one loaded, with entry.client
\* 'src/client.tsx' and tailwindcss true.
C10_TailwindConfigPersisted ==
  TailwindRunEnded =>
    /\ cfgResult # "none"
    /\ cfgResult = "success" =>
         cfgFile = ConfigLiteral(
           [title |-> userConfig.title,
            entry |-> [has |-> TRUE, client |-> ClientPath,
                       server |-> userConfig.entry.server],
            tailwindcss |-> "true"])


====
